---- MODULE Spec2Model ----
(***************************************************************************)
(* Model of backend/src/main.rs of hn_tracker: the hourly ingestion task   *)
(* run_updates, the History kept behind a tokio RwLock, the Kafka topic    *)
(* "hn-updates" and the read handlers of the HTTP API.                     *)
(*                                                                         *)
(* Time is counted in seconds with HourLen seconds to the hour.  Option<T> *)
(* is a sequence of length 0 (None) or 1 (Some).                           *)
(*                                                                         *)
(* Spec      the program: every lock request goes through the FIFO wait    *)
(*           queue of tokio's write-preferring RwLock.                     *)
(* FairSpec  Spec with the fairness of the tokio scheduler and of the      *)
(*           time-bounded network calls.                                   *)
(* StoreSpec the same statements of run_updates and of the handlers run    *)
(*           as sequential code, each lock request returning at once; it   *)
(*           shows what the statements behind a lock request do to         *)
(*           History.                                                      *)
(* AggSpec   interval.tick() and process_time_range alone, one cycle after *)
(*           another, over items that share an hour, an author, a domain.  *)
(* ReplaySpec the receive loop of get_all_kafka_messages, one recv at a    *)
(*           time, over topics with and without unparsable payloads.       *)
(***************************************************************************)
EXTENDS Integers, Sequences, FiniteSets, TLC

\* ------------------------------------------------------------------ bounds
HourLen  == 2      \* seconds to the hour in the model
MaxNow   == 5      \* last wall-clock second the model looks at
MaxBatch == 1      \* most stories in one enumerated upstream listing
MaxLog   == 2      \* most messages the topic holds
MaxPrior == 1      \* most messages left in the topic by earlier processes
AggMaxBatch == 3   \* most items in a listing of the aggregation cycles

\* ------------------------------------------------------- program constants
RetentionCap    == 168
TopSourcesLimit == 20
TopN            == 10
MaxTimeouts     == 3
WideSpan        == RetentionCap + 1

\* ------------------------------------------------------------------- state
VARIABLES
  now,           \* Utc::now()
  upd_pc,        \* position of run_updates
  current_hour,  \* run_updates: current_hour
  response,      \* run_updates: Option<HourlyResponse> of this cycle
  hours,         \* AppStateData.historical_data.hours
  last_update,   \* AppStateData.historical_data.last_update
  readers,       \* tasks holding a read guard of the RwLock
  waitq,         \* FIFO queue of the tasks waiting for the RwLock
  log,           \* messages of topic hn-updates, in offset order
  committed,     \* committed offset of group history-reader-group
  req_pc,        \* position of the HTTP request being served
  req_kind,      \* which handler serves it
  resp,          \* Option<response> of that request
  fetched,       \* Option<the items the listings of this cycle named>
  rp_pc,         \* position of a run of get_all_kafka_messages
  topic,         \* the messages that run has still to receive, and has
  consumed,      \* how many of them consumer.recv() has handed out
  all_hourly_data, \* get_all_kafka_messages: all_hourly_data
  timeout_count  \* get_all_kafka_messages: timeout_count

vars == <<now, upd_pc, current_hour, response, hours, last_update, readers,
          waitq, log, committed, req_pc, req_kind, resp, fetched,
          rp_pc, topic, consumed, all_hourly_data, timeout_count>>

updVars  == <<upd_pc, current_hour, response>>
lockVars == <<readers, waitq>>
reqVars  == <<req_pc, req_kind, resp>>
aggVars  == <<fetched>>
replayVars == <<rp_pc, topic, consumed, all_hourly_data, timeout_count>>

\* ---------------------------------------------------------------- stories
None == <<>>
Some(x) == <<x>>

\* an item of the feed; its title is modelled by its id, its url by the
\* domain extract_domain finds in it
Story(id, time, by, domain, score, descendants) ==
  [id |-> id, title |-> id, time |-> time, by |-> by, domain |-> domain,
   score |-> score, descendants |-> descendants]

\* the items the upstream listings can name
Items ==
  { Story(1, 1, Some("A"), Some("x.com"), Some(10), Some(1)),
    Story(2, 2, Some("A"), Some("y.com"), Some(20), None),
    Story(3, 4, Some("B"), Some("x.com"), Some(30), Some(2)) }

\* sequences of at most n distinct elements of S
SeqsUpTo(S, n) ==
  UNION { { f \in [1..k -> S] : \A i, j \in 1..k : i # j => f[i] # f[j] }
          : k \in 0..n }

\* one listing of old and new items: a story for every one of the WideSpan
\* hours before end_time
WideBatch(end_time) ==
  [k \in 1..WideSpan |->
     Story(2000 + end_time - k * HourLen, end_time - k * HourLen,
           None, None, None, None)]

\* what story_ids.into_iter() and the item fetches can yield in a cycle
Batches(end_time) == SeqsUpTo(Items, MaxBatch) \cup {WideBatch(end_time)}

\* ------------------------------------------------------ process_time_range
HourStart(t) == t - (t % HourLen)

\* the filter without its lower bound
InTimespanNoLowerBound(story_time, start_time, end_time) ==
  story_time < end_time

InTimespan(story_time, start_time, end_time) ==
  story_time >= start_time /\ story_time < end_time

\* the fetch with a filter that lets the story created at end_time through
FetchStoriesClosedEnd(cands, start_time, end_time) ==
  SelectSeq(cands, LAMBDA s : s.time >= start_time /\ s.time <= end_time)

FetchStoriesForTimespan(cands, start_time, end_time) ==
  SelectSeq(cands, LAMBDA s : InTimespan(s.time, start_time, end_time))

UnwrapOr(opt, default) == IF opt = None THEN default ELSE opt[1]

StoryInfoOf(story) ==
  [title    |-> story.title,
   author   |-> UnwrapOr(story.by, ""),
   score    |-> UnwrapOr(story.score, 0),
   comments |-> UnwrapOr(story.descendants, 0),
   domain   |-> story.domain]

\* the keys of author_counts and of domain_counts
StoryAuthors(stories) ==
  { stories[i].by[1] : i \in { j \in DOMAIN stories : stories[j].by # None } }

StoryDomains(stories) ==
  { stories[i].domain[1] : i \in { j \in DOMAIN stories : stories[j].domain # None } }

AuthorCount(stories, a) ==
  Cardinality({ i \in DOMAIN stories : stories[i].by = Some(a) })

DomainCount(stories, d) ==
  Cardinality({ i \in DOMAIN stories : stories[i].domain = Some(d) })

\* the orders into_iter() of a HashMap with the keys D can hand them out in
MapOrders(D) ==
  { f \in [1..Cardinality(D) -> D] :
      \A i, j \in 1..Cardinality(D) : i # j => f[i] # f[j] }

RECURSIVE InsertByCount(_, _)
InsertByCount(sorted, e) ==
  IF sorted = <<>> THEN <<e>>
  ELSE IF Head(sorted)[2] >= e[2]
       THEN <<Head(sorted)>> \o InsertByCount(Tail(sorted), e)
       ELSE <<e>> \o sorted

\* sort_by(|a, b| b.1.cmp(&a.1)): stable, largest count first
RECURSIVE SortByCountDesc(_)
SortByCountDesc(seq) ==
  IF seq = <<>> THEN <<>>
  ELSE InsertByCount(SortByCountDesc(SubSeq(seq, 1, Len(seq) - 1)), seq[Len(seq)])

Min(a, b) == IF a <= b THEN a ELSE b

Take(seq, n) == SubSeq(seq, 1, Min(n, Len(seq)))

RECURSIVE SumOf(_, _)
SumOf(stories, field) ==
  IF stories = <<>> THEN 0
  ELSE UnwrapOr(Head(stories)[field], 0) + SumOf(Tail(stories), field)

\* total_score as f64 / stories.len() as f64, kept as the exact fraction
AvgScore(stories) ==
  IF stories # <<>>
  THEN [num |-> SumOf(stories, "score"), den |-> Len(stories)]
  ELSE [num |-> 0, den |-> 1]

\* top_authors: the entries of author_counts, in the order author_order
\* gives its keys, sorted by count, the first TopN of them
TopAuthors(stories, author_order) ==
  LET keys == SelectSeq(author_order, LAMBDA a : a \in StoryAuthors(stories))
  IN  Take(SortByCountDesc([i \in DOMAIN keys |->
                              <<keys[i], AuthorCount(stories, keys[i])>>]), TopN)

\* domains as the map hands them out, not sorted
TopDomainsUnranked(stories, domain_order) ==
  LET keys == SelectSeq(domain_order, LAMBDA d : d \in StoryDomains(stories))
  IN  Take([i \in DOMAIN keys |-> <<keys[i], DomainCount(stories, keys[i])>>],
           TopN)

TopDomains(stories, domain_order) ==
  LET keys == SelectSeq(domain_order, LAMBDA d : d \in StoryDomains(stories))
  IN  Take(SortByCountDesc([i \in DOMAIN keys |->
                              <<keys[i], DomainCount(stories, keys[i])>>]), TopN)

HourlyDataOf(hour, stories, author_order, domain_order) ==
  [hour           |-> hour,
   stories        |-> [i \in DOMAIN stories |-> StoryInfoOf(stories[i])],
   avg_score      |-> AvgScore(stories),
   total_comments |-> SumOf(stories, "descendants"),
   top_authors    |-> TopAuthors(stories, author_order),
   domains        |-> TopDomains(stories, domain_order)]

\* sort_by(|a, b| b.hour.cmp(&a.hour)): a stable sort, newest first.  The
\* place of an element is one more than the number of elements that the
\* stable order puts before it.
SortByHourDesc(seq) ==
  LET n     == Len(seq)
      before(i) == { j \in 1..n : \/ seq[j].hour > seq[i].hour
                                  \/ seq[j].hour = seq[i].hour /\ j < i }
      place == [i \in 1..n |-> Cardinality(before(i)) + 1] \o <<>>
  IN  [k \in 1..n |-> seq[CHOOSE i \in 1..n : place[i] = k]]

\* hour_groups is iterated in an order of the map's choosing, here the order
\* in which the hours were entered; the sort that follows fixes the order
\* of hourly_data, the hours being distinct.  author_order and domain_order
\* are the orders in which the maps of a group hand out their keys.
ProcessTimeRange(end_time, cands, author_order, domain_order) ==
  LET one_hour_ago == end_time - HourLen
      stories  == FetchStoriesForTimespan(cands, one_hour_ago, end_time)
      hourOf(i) == HourStart(stories[i].time)
      entered  == SelectSeq([i \in DOMAIN stories |-> i],
                            LAMBDA i : \A j \in 1..(i - 1) : hourOf(j) # hourOf(i))
      group(h) == SelectSeq(stories, LAMBDA s : HourStart(s.time) = h)
      hourly   == [k \in DOMAIN entered |->
                     HourlyDataOf(hourOf(entered[k]), group(hourOf(entered[k])),
                                  author_order, domain_order)]
  IN  [hourly_data |-> SortByHourDesc(hourly), timestamp |-> end_time]

\* the responses process_time_range can return for one listing
Responses(end_time, cands) ==
  { ProcessTimeRange(end_time, cands, ao, do) :
      ao \in MapOrders(StoryAuthors(cands)), do \in MapOrders(StoryDomains(cands)) }

\* ------------------------------------------------------------------- Kafka
ToJson(hour_data) == [json |-> hour_data]
FromJson(payload) == IF "json" \in DOMAIN payload THEN Some(payload.json) ELSE None

Record(hour_data) == [key |-> hour_data.hour, payload |-> ToJson(hour_data)]

RECURSIVE ParseAll(_)
ParseAll(msgs) ==
  IF msgs = <<>> THEN <<>>
  ELSE LET data == FromJson(Head(msgs).payload)
       IN  data \o ParseAll(Tail(msgs))

\* the numbers of messages one run of the receive loop can consume: it reads
\* on from the committed offset and leaves the loop on the third timeout in a
\* row, on a receive error, or with RetentionCap windows
ReplayLens ==
  { n \in 0..(Len(log) - committed) :
      n = 0 \/ Len(ParseAll(SubSeq(log, committed + 1, committed + n - 1)))
                 < RetentionCap }

Delivered(n) == SubSeq(log, committed + 1, committed + n)

\* the replay without its final sort
GetAllKafkaMessagesUnsorted(delivered) == ParseAll(delivered)

GetAllKafkaMessages(delivered) == SortByHourDesc(ParseAll(delivered))

GetLatestKafkaMessage(messages) ==
  IF messages = <<>> THEN None ELSE Some(Head(messages))

\* the windows a process that ran in the hour before this one started can
\* have left in the topic
PriorWindows ==
  UNION { { r.hourly_data[1] : r \in Responses(HourLen, <<s>>) } :
          s \in { x \in Items : InTimespan(x.time, 0, HourLen) } }

\* ------------------------------------------------------------------- Init
Init ==
  /\ now = HourLen
  /\ upd_pc = "tick"
  /\ current_hour = HourLen
  /\ response = None
  /\ hours = <<>>
  /\ last_update = None
  /\ readers = {}
  /\ waitq = <<>>
  /\ \E prior \in SeqsUpTo(PriorWindows, MaxPrior) :
       log = [i \in DOMAIN prior |-> Record(prior[i])]
  /\ committed \in 0..MaxPrior
  /\ committed <= Len(log)
  /\ req_pc = "idle"
  /\ req_kind = "none"
  /\ resp = None
  /\ fetched = None
  /\ rp_pc = "idle"
  /\ topic = <<>>
  /\ consumed = 0
  /\ all_hourly_data = <<>>
  /\ timeout_count = 0

\* ------------------------------------------------------------ run_updates
\* the branches of publishing that the topic bound admits: the sets of loop
\* indexes whose send returns Ok
RECURSIVE SubsetsUpTo(_, _)
SubsetsUpTo(D, c) ==
  IF c <= 0 THEN {{}}
  ELSE LET smaller == SubsetsUpTo(D, c - 1)
       IN  smaller \cup { S \cup {x} : S \in smaller, x \in D }

SendOutcomes(hourly_data) == SubsetsUpTo(DOMAIN hourly_data, MaxLog - Len(log))

\* the records of the sends that returned Ok, in loop order
SentRecords(hourly_data, S) ==
  LET sent == SelectSeq([i \in DOMAIN hourly_data |-> i], LAMBDA i : i \in S)
  IN  [k \in DOMAIN sent |-> Record(hourly_data[sent[k]])]

\* the store keeping the windows it held behind the new ones
UpdateStateKeepOld(old_hours, r) ==
  [hours |-> r.hourly_data \o old_hours, last_update |-> Some(r.timestamp)]

UpdateState(old_hours, r) ==
  [hours |-> r.hourly_data, last_update |-> Some(r.timestamp)]

\* interval.tick().await, then now and current_hour are taken
Tick ==
  /\ upd_pc = "tick"
  /\ \E t \in now..MaxNow :
       /\ now' = t
       /\ current_hour' = HourStart(t)
  /\ upd_pc' = "processing"
  /\ response' = None
  /\ UNCHANGED <<hours, last_update, lockVars, log, committed, reqVars>>
  /\ UNCHANGED <<aggVars, replayVars>>

\* process_time_range returns Err: a listing call failed
ProcessErr ==
  /\ upd_pc = "processing"
  /\ upd_pc' = "tick"
  /\ UNCHANGED <<now, current_hour, response, hours, last_update, lockVars,
                 log, committed, reqVars>>
  /\ UNCHANGED <<aggVars, replayVars>>

\* process_time_range returns Ok(response)
ProcessOk ==
  /\ upd_pc = "processing"
  /\ \E cands \in Batches(current_hour) :
       \E r \in Responses(current_hour, cands) : response' = Some(r)
  /\ upd_pc' = "req_read"
  /\ UNCHANGED <<now, current_hour, hours, last_update, lockVars, log,
                 committed, reqVars>>
  /\ UNCHANGED <<aggVars, replayVars>>

\* let state_data = state.read().await, as the lock sees it
UpdRequestRead ==
  /\ upd_pc = "req_read"
  /\ waitq' = Append(waitq, [p |-> "upd", mode |-> "read"])
  /\ upd_pc' = "wait_read"
  /\ UNCHANGED <<now, current_hour, response, hours, last_update, readers,
                 log, committed, reqVars>>
  /\ UNCHANGED <<aggVars, replayVars>>

\* the for loop over response.hourly_data: every send is awaited and its
\* Err is logged
PublishLoop ==
  /\ upd_pc = "publishing"
  /\ \E S \in SendOutcomes(response[1].hourly_data) :
       log' = log \o SentRecords(response[1].hourly_data, S)
  /\ upd_pc' = "req_write"
  /\ UNCHANGED <<now, current_hour, response, hours, last_update, lockVars,
                 committed, reqVars>>
  /\ UNCHANGED <<aggVars, replayVars>>

\* let mut state_data = state.write().await, as the lock sees it
UpdRequestWrite ==
  /\ upd_pc = "req_write"
  /\ waitq' = Append(waitq, [p |-> "upd", mode |-> "write"])
  /\ upd_pc' = "wait_write"
  /\ UNCHANGED <<now, current_hour, response, hours, last_update, readers,
                 log, committed, reqVars>>
  /\ UNCHANGED <<aggVars, replayVars>>

\* ---------------------------------------------------------- read handlers
\* the body of get_historical_data once the replay has returned windows
HistoryFromLog(hourly_data) ==
  [hours |-> hourly_data, last_update |-> Some(now)]

\* the body of get_historical_data on its fallback: data.historical_data.clone()
HistoryFromMemory == [hours |-> hours, last_update |-> last_update]

\* get_latest_hour: data.historical_data.hours.last()
GetLatestHour(hs) ==
  IF hs = <<>> THEN [status |-> "not_found", body |-> None]
  ELSE [status |-> "ok", body |-> Some(hs[Len(hs)])]

\* domain_counts of get_latest_source_counts
SourceDomains(stories) == StoryDomains(stories)

TopSources(stories, order) ==
  Take(SortByCountDesc([i \in DOMAIN order |->
                          <<order[i], DomainCount(stories, order[i])>>]),
       TopSourcesLimit)

LatestResponse ==
  LET r == GetLatestHour(hours)
  IN  [kind |-> "latest", status |-> r.status, body |-> r.body, path |-> "memory"]

FallbackResponse ==
  [kind |-> "history", status |-> "ok", body |-> Some(HistoryFromMemory),
   path |-> "memory"]

\* get_historical_data up to the end of the replay
ReqHistory ==
  /\ req_pc \in {"idle", "done"}
  /\ req_kind' = "history"
  /\ \E n \in ReplayLens :
       LET hourly_data == GetAllKafkaMessages(Delivered(n))
       IN  /\ committed' \in {committed, committed + n}
           /\ IF hourly_data # <<>>
              THEN /\ resp' = Some([kind |-> "history", status |-> "ok",
                                    body |-> Some(HistoryFromLog(hourly_data)),
                                    path |-> "log"])
                   /\ req_pc' = "done"
              ELSE /\ resp' = None
                   /\ req_pc' = "fallback"
  /\ UNCHANGED <<now, updVars, hours, last_update, lockVars, log>>
  /\ UNCHANGED <<aggVars, replayVars>>

\* get_historical_data: let data = state.read().await, as the lock sees it
ReqHistoryLock ==
  /\ req_pc = "fallback"
  /\ waitq' = Append(waitq, [p |-> "req", mode |-> "read"])
  /\ req_pc' = "wait_read"
  /\ UNCHANGED <<now, updVars, hours, last_update, readers, log, committed,
                 req_kind, resp>>
  /\ UNCHANGED <<aggVars, replayVars>>

\* get_latest_hour: let data = state.read().await, as the lock sees it
ReqLatestLock ==
  /\ req_pc \in {"idle", "done"}
  /\ req_kind' = "latest"
  /\ resp' = None
  /\ waitq' = Append(waitq, [p |-> "req", mode |-> "read"])
  /\ req_pc' = "wait_read"
  /\ UNCHANGED <<now, updVars, hours, last_update, readers, log, committed>>
  /\ UNCHANGED <<aggVars, replayVars>>

\* get_latest_source_counts
ReqSources ==
  /\ req_pc \in {"idle", "done"}
  /\ req_kind' = "sources"
  /\ req_pc' = "done"
  /\ \E n \in ReplayLens :
       LET latest == GetLatestKafkaMessage(GetAllKafkaMessages(Delivered(n)))
       IN  /\ committed' \in {committed, committed + n}
           /\ IF latest = None
              THEN resp' = Some([kind |-> "sources", status |-> "not_found",
                                 body |-> None, path |-> "log"])
              ELSE \E order \in MapOrders(SourceDomains(latest[1].stories)) :
                     resp' = Some([kind |-> "sources", status |-> "ok",
                                   body |-> Some(TopSources(latest[1].stories, order)),
                                   path |-> "log"])
  /\ UNCHANGED <<now, updVars, hours, last_update, lockVars, log>>
  /\ UNCHANGED <<aggVars, replayVars>>

\* ------------------------------------------------------------- the RwLock
\* the lock hands itself to the task at the head of its queue: a reader
\* when no write guard is out, a writer when no guard at all is out.  The
\* task then runs on to its next await: run_updates with its read guard
\* starts publishing, run_updates with its write guard stores the response
\* and drops both guards at the end of the match arm, a handler answers and
\* drops its guard.
Grant ==
  /\ waitq # <<>>
  /\ LET h == Head(waitq)
     IN  /\ h.mode = "write" => readers = {}
         /\ waitq' = Tail(waitq)
         /\ IF h.p = "upd" /\ h.mode = "read"
            THEN /\ readers' = readers \cup {"upd"}
                 /\ upd_pc' = "publishing"
                 /\ UNCHANGED <<hours, last_update, response, reqVars>>
            ELSE IF h.p = "upd"
            THEN /\ hours' = UpdateState(hours, response[1]).hours
                 /\ last_update' = UpdateState(hours, response[1]).last_update
                 /\ readers' = readers \ {"upd"}
                 /\ response' = None
                 /\ upd_pc' = "tick"
                 /\ UNCHANGED reqVars
            ELSE /\ resp' = Some(IF req_kind = "latest" THEN LatestResponse
                                 ELSE FallbackResponse)
                 /\ req_pc' = "done"
                 /\ UNCHANGED <<hours, last_update, readers, upd_pc, response,
                                req_kind>>
  /\ UNCHANGED <<now, current_hour, log, committed>>
  /\ UNCHANGED <<aggVars, replayVars>>

Next ==
  \/ Tick
  \/ ProcessErr
  \/ ProcessOk
  \/ UpdRequestRead
  \/ PublishLoop
  \/ UpdRequestWrite
  \/ ReqHistory
  \/ ReqHistoryLock
  \/ ReqLatestLock
  \/ ReqSources
  \/ Grant

Spec == Init /\ [][Next]_vars

\* tokio polls every task that can run; the listing calls, the sends and
\* the receives are bounded by timeouts.  Nothing obliges a client to send
\* another request.
Fairness ==
  /\ WF_vars(Tick)
  /\ WF_vars(ProcessErr \/ ProcessOk)
  /\ WF_vars(UpdRequestRead)
  /\ WF_vars(PublishLoop)
  /\ WF_vars(UpdRequestWrite)
  /\ WF_vars(ReqHistoryLock)
  /\ WF_vars(Grant)

FairSpec == Spec /\ Fairness

\* ------------------------------------- the statements run as sequential code
StoreUpdRead ==
  /\ upd_pc = "req_read"
  /\ readers' = readers \cup {"upd"}
  /\ upd_pc' = "publishing"
  /\ UNCHANGED <<now, current_hour, response, hours, last_update, waitq, log,
                 committed, reqVars>>
  /\ UNCHANGED <<aggVars, replayVars>>

StoreUpdWrite ==
  /\ upd_pc = "req_write"
  /\ hours' = UpdateState(hours, response[1]).hours
  /\ last_update' = UpdateState(hours, response[1]).last_update
  /\ readers' = readers \ {"upd"}
  /\ response' = None
  /\ upd_pc' = "tick"
  /\ UNCHANGED <<now, current_hour, waitq, log, committed, reqVars>>
  /\ UNCHANGED <<aggVars, replayVars>>

StoreHistoryFallback ==
  /\ req_pc = "fallback"
  /\ resp' = Some(FallbackResponse)
  /\ req_pc' = "done"
  /\ UNCHANGED <<now, updVars, hours, last_update, lockVars, log, committed,
                 req_kind>>
  /\ UNCHANGED <<aggVars, replayVars>>

StoreLatest ==
  /\ req_pc \in {"idle", "done"}
  /\ req_kind' = "latest"
  /\ resp' = Some(LatestResponse)
  /\ req_pc' = "done"
  /\ UNCHANGED <<now, updVars, hours, last_update, lockVars, log, committed>>
  /\ UNCHANGED <<aggVars, replayVars>>

StoreNext ==
  \/ Tick
  \/ ProcessErr
  \/ ProcessOk
  \/ StoreUpdRead
  \/ PublishLoop
  \/ StoreUpdWrite
  \/ ReqHistory
  \/ StoreHistoryFallback
  \/ StoreLatest
  \/ ReqSources

StoreSpec == Init /\ [][StoreNext]_vars

\* ----------------------------- process_time_range, one cycle after another
\* items for the cycles of the aggregation alone: three of one hour, the
\* first of them created on the hour, and one of the hour before
AggItems ==
  { Story(11, HourLen,     Some("A"), Some("x.com"), Some(10), Some(1)),
    Story(12, HourLen + 1, Some("A"), Some("y.com"), Some(20), None),
    Story(13, HourLen + 1, Some("B"), Some("x.com"), Some(30), Some(2)),
    Story(15, HourLen - 1, Some("B"), Some("y.com"), Some(5), Some(0)) }

\* story_ids is a HashSet: the ids of a cycle are distinct, in any order
AggBatches == SeqsUpTo(AggItems, AggMaxBatch)

\* the ids of the stories the cycle in fetched handed to the grouping
PassedIds ==
  IF fetched = None THEN {}
  ELSE LET stories == FetchStoriesForTimespan(fetched[1],
                                              current_hour - HourLen, current_hour)
       IN  { stories[i].id : i \in DOMAIN stories }

\* interval.tick() and process_time_range(current_hour) returning Ok
AggCycleOk ==
  /\ upd_pc = "tick"
  /\ \E t \in now..MaxNow :
       /\ now' = t
       /\ current_hour' = HourStart(t)
       /\ \E cands \in AggBatches :
            /\ fetched' = Some(cands)
            /\ \E r \in Responses(HourStart(t), cands) : response' = Some(r)
  /\ UNCHANGED <<upd_pc, hours, last_update, lockVars, log, committed, reqVars,
                 replayVars>>

\* interval.tick() and process_time_range(current_hour) returning Err
AggCycleErr ==
  /\ upd_pc = "tick"
  /\ \E t \in now..MaxNow :
       /\ now' = t
       /\ current_hour' = HourStart(t)
  /\ fetched' = None
  /\ response' = None
  /\ UNCHANGED <<upd_pc, hours, last_update, lockVars, log, committed, reqVars,
                 replayVars>>

AggNext ==
  \/ AggCycleOk
  \/ AggCycleErr

\* the aggregation does not read the topic: it is taken empty
AggInit == Init /\ log = <<>> /\ committed = 0

AggSpec == AggInit /\ [][AggNext]_vars

\* ------------------------------- get_all_kafka_messages, one recv at a time
\* a payload serde_json does not parse as HourlyData
Garbage == [text |-> "not a window"]

\* a topic of len messages, one window an hour, those at the offsets in bad
\* with a payload that does not parse
TopicOf(len, bad) ==
  [i \in 1..len |->
     IF i \in bad THEN [key |-> i * HourLen, payload |-> Garbage]
     ELSE Record(HourlyDataOf(i * HourLen, <<>>, <<>>, <<>>))]

\* the topics a run is taken over: empty, short, and one message longer
\* than a week of windows; all windows, or the first message unparsable
ReplayTopics ==
  { TopicOf(len, bad) : len \in {0, MaxLog, WideSpan}, bad \in {{}, {1}} }

\* while all_hourly_data.len() < 168 && timeout_count < 3
LoopGuard ==
  Len(all_hourly_data) < RetentionCap /\ timeout_count < MaxTimeouts

\* the consumer is created and subscribed; the loop variables are initialised
ReplayStart ==
  /\ rp_pc \in {"idle", "returned"}
  /\ topic' \in ReplayTopics
  /\ consumed' = 0
  /\ all_hourly_data' = <<>>
  /\ timeout_count' = 0
  /\ rp_pc' = "loop"
  /\ UNCHANGED <<now, updVars, hours, last_update, lockVars, log, committed,
                 reqVars, aggVars>>

\* Ok(Ok(msg)): the counter is reset, the window is pushed if the payload
\* parses
ReplayRecvMessage ==
  /\ rp_pc = "loop"
  /\ LoopGuard
  /\ consumed < Len(topic)
  /\ consumed' = consumed + 1
  /\ timeout_count' = 0
  /\ all_hourly_data' = all_hourly_data \o FromJson(topic[consumed + 1].payload)
  /\ UNCHANGED <<now, updVars, hours, last_update, lockVars, log, committed,
                 reqVars, aggVars, rp_pc, topic>>

\* Err(_): two seconds have passed without a message
ReplayTimeout ==
  /\ rp_pc = "loop"
  /\ LoopGuard
  /\ timeout_count' = timeout_count + 1
  /\ UNCHANGED <<now, updVars, hours, last_update, lockVars, log, committed,
                 reqVars, aggVars, rp_pc, topic, consumed, all_hourly_data>>

\* the loop is left, by its guard or by the break on Ok(Err(e)); the windows
\* are sorted and returned
ReplayReturn ==
  /\ rp_pc = "loop"
  /\ all_hourly_data' = SortByHourDesc(all_hourly_data)
  /\ rp_pc' = "returned"
  /\ UNCHANGED <<now, updVars, hours, last_update, lockVars, log, committed,
                 reqVars, aggVars, topic, consumed, timeout_count>>

ReplayNext ==
  \/ ReplayStart
  \/ ReplayRecvMessage
  \/ ReplayTimeout
  \/ ReplayReturn

ReplaySpec == Init /\ [][ReplayNext]_vars

\* ================================================================= claims
HistoryBody == resp[1].body[1].hours

IsHistoryResponse == resp # None /\ resp[1].kind = "history"

NoDuplicateHours(seq) ==
  \A i, j \in DOMAIN seq : i # j => seq[i].hour # seq[j].hour

IsDescending(seq) ==
  \A i, j \in DOMAIN seq : i < j => seq[i].hour >= seq[j].hour

PcRank(pc) ==
  CASE pc = "tick" -> 0
    [] pc = "processing" -> 1
    [] pc = "req_read" -> 2
    [] pc = "wait_read" -> 3
    [] pc = "publishing" -> 4
    [] pc = "req_write" -> 5
    [] pc = "wait_write" -> 6

\* C1: whenever run_updates waits for the write lock after a successful
\* process_time_range, the lock is eventually granted and run_updates is
\* back at interval.tick().  (Stated as the claim has it; the program
\* violates it.)
C1_WriteLockGranted == (upd_pc = "wait_write") ~> (upd_pc = "tick")

\* C2: run_updates holds no guard of the History lock while it is suspended
\* in a send to the topic.  (Stated as the claim has it; the program
\* violates it.)
C2_NoGuardAcrossPublish == ~(upd_pc = "publishing" /\ "upd" \in readers)

C4_HistoryWithinCap == Len(hours) <= RetentionCap

\* a failed cycle after a cycle that stored a window
C4_Witness ==
  /\ upd_pc = "tick"
  /\ hours # <<>>
  /\ last_update # None
  /\ current_hour > last_update[1]

\* C5: no getHistory response holds two windows of the same start.  (Stated
\* as the claim has it; the replay path violates it.)
C5_NoDuplicateHours == IsHistoryResponse => NoDuplicateHours(HistoryBody)

\* the most recent window a successful process_time_range of this process
\* has computed
LatestComputed ==
  IF response = None \/ response[1].hourly_data = <<>> THEN None
  ELSE Some(response[1].hourly_data[1])

\* the request has been answered from memory with a History that holds the
\* most recent computed window, if there is one
ServedLatestFromMemory ==
  IF req_pc = "done" /\ IsHistoryResponse
  THEN /\ resp[1].path = "memory"
       /\ LatestComputed # None =>
            \E i \in DOMAIN HistoryBody : HistoryBody[i] = LatestComputed[1]
  ELSE FALSE

\* C6: a getHistory call whose replay yields no window returns the in-memory
\* History, and that holds the most recent window this process computed.
\* (Stated as the claim has it; the program violates it.)
C6_FallbackServesLatest == (req_pc = "fallback") ~> ServedLatestFromMemory

\* C7: every getHistory response lists its windows newest first.
C7_HistoryDescending == IsHistoryResponse => IsDescending(HistoryBody)

\* a replay that was delivered an older window before a newer one
C7_Witness ==
  /\ IsHistoryResponse
  /\ resp[1].path = "log"
  /\ Len(HistoryBody) >= 2
  /\ HistoryBody[1].hour > HistoryBody[2].hour
  /\ \E i, j \in DOMAIN log :
       /\ i < j
       /\ log[i].payload.json = HistoryBody[2]
       /\ log[j].payload.json = HistoryBody[1]

\* C8: getLatest answers NotFound exactly when History is empty, and
\* otherwise with the window of the greatest start in History.
C8_LatestIsNewest ==
  [][StoreLatest =>
       /\ resp'[1].status = "not_found" <=> hours = <<>>
       /\ resp'[1].status = "ok" =>
            /\ \E i \in DOMAIN hours : hours[i] = resp'[1].body[1]
            /\ \A i \in DOMAIN hours : hours[i].hour <= resp'[1].body[1].hour]_vars

\* getLatest has answered with a window while History holds one
C8_Witness ==
  /\ resp # None
  /\ resp[1].kind = "latest"
  /\ resp[1].status = "ok"
  /\ hours # <<>>
  /\ resp[1].body[1] = hours[Len(hours)]

C10_SchedulerNeverStops ==
  /\ []<>(upd_pc = "tick")
  /\ []<>(upd_pc = "processing")
  /\ [][upd_pc' # upd_pc =>
          (upd_pc' = "tick" \/ PcRank(upd_pc') > PcRank(upd_pc))]_vars

\* what process_time_range returns when the listings name no item
NoCandidatesResponse == ProcessTimeRange(current_hour, <<>>, <<>>, <<>>)

CycleResponses ==
  UNION { Responses(HourStart(t), cands) :
            t \in HourLen..MaxNow, cands \in SeqsUpTo(Items, MaxBatch) }

\* C12: the windows of every cycle whose process_time_range returned Ok are
\* eventually the content of hours, whatever the outcome of each send.
\* (Stated as the claim has it; the program violates it.)
C12_WindowsEventuallyStored ==
  \A r \in CycleResponses :
    (upd_pc = "publishing" /\ response = Some(r)) ~> (hours = r.hourly_data)

\* the windows of the history response that is in resp
EarlierReadFromLog == IsHistoryResponse /\ resp[1].path = "log"

\* C16: a getHistory call that follows one answered from the log and reads
\* the log to its end returns every window the earlier call returned.
\* (Stated as the claim has it; the program violates it.)
C16_ReadReplaysInFull ==
  [][(ReqHistory /\ EarlierReadFromLog /\ committed' = Len(log))
       => /\ resp' # None
          /\ \A i \in DOMAIN HistoryBody :
               \E j \in DOMAIN resp'[1].body[1].hours :
                 resp'[1].body[1].hours[j] = HistoryBody[i]]_vars

C20_ReadersEventuallyServed == (req_pc = "wait_read") ~> (req_pc = "done")

FeedsThree ==
  /\ fetched # None
  /\ response # None
  /\ Len(fetched[1]) = 3
  /\ { fetched[1][i].id : i \in DOMAIN fetched[1] } = {11, 12, 13}
  /\ current_hour = 2 * HourLen

SingleWindow == response[1].hourly_data[1]

\* C14 as the claim has it: one window, average 20, top author A with 2,
\* domains x.com and y.com with 1 each, x.com first
C14_ExampleAsClaimed ==
  FeedsThree =>
    /\ Len(response[1].hourly_data) = 1
    /\ SingleWindow.avg_score.num = 20 * SingleWindow.avg_score.den
    /\ SingleWindow.top_authors[1] = <<"A", 2>>
    /\ SingleWindow.domains = << <<"x.com", 1>>, <<"y.com", 1>> >>

\* C14: the three items of the example yield one window with average
\* score 20, top author A with count 2, and the domains x.com with count 2
\* and y.com with count 1, in this order.
C14_Example ==
  FeedsThree =>
    /\ Len(response[1].hourly_data) = 1
    /\ SingleWindow.avg_score.num = 20 * SingleWindow.avg_score.den
    /\ SingleWindow.top_authors[1] = <<"A", 2>>
    /\ SingleWindow.domains = << <<"x.com", 2>>, <<"y.com", 1>> >>

\* the example has been aggregated
C14_Witness ==
  /\ FeedsThree
  /\ Len(SingleWindow.stories) = 3

\* where the story with this title stands in the windows of the response
Occurrences(title) ==
  LET hd == response[1].hourly_data
  IN  { o \in (DOMAIN hd) \X (1..AggMaxBatch + 1) :
          /\ o[2] <= Len(hd[o[1]].stories)
          /\ hd[o[1]].stories[o[2]].title = title }

\* C18: every fetched item created in [current_hour - 1h, current_hour)
\* stands in exactly one window, the one of its hour; every other fetched
\* item, the one created at current_hour included, stands in none.
C18_EachItemInItsWindow ==
  (fetched # None /\ response # None) =>
    \A i \in DOMAIN fetched[1] :
      LET s == fetched[1][i]
      IN  IF s.time >= current_hour - HourLen /\ s.time < current_hour
          THEN /\ Cardinality(Occurrences(s.title)) = 1
               /\ \A o \in Occurrences(s.title) :
                    response[1].hourly_data[o[1]].hour = s.time - (s.time % HourLen)
          ELSE Occurrences(s.title) = {}

\* a cycle has fetched an item of its hour, the item created at the end of
\* the hour and an item created after it
C18_Witness ==
  /\ fetched # None
  /\ response # None
  /\ \E i, j, k \in DOMAIN fetched[1] :
       /\ fetched[1][i].time >= current_hour - HourLen
       /\ fetched[1][i].time < current_hour
       /\ Occurrences(fetched[1][i].title) # {}
       /\ fetched[1][j].time = current_hour
       /\ fetched[1][k].time > current_hour

FirstOccurrence(keys, key) ==
  CHOOSE i \in DOMAIN keys :
    keys[i] = key /\ \A j \in 1..(i - 1) : keys[j] # key

\* entries of equal count stand in the order in which keys names them first
RankedByFirstOccurrence(ranking, keys) ==
  \A i, j \in DOMAIN ranking :
    (i < j /\ ranking[i][2] = ranking[j][2])
      => FirstOccurrence(keys, ranking[i][1]) < FirstOccurrence(keys, ranking[j][1])

WindowsRankedByFirstOccurrence ==
  response # None =>
    \A w \in DOMAIN response[1].hourly_data :
      LET hd == response[1].hourly_data[w]
      IN  /\ RankedByFirstOccurrence(hd.top_authors,
                [i \in DOMAIN hd.stories |-> hd.stories[i].author])
          /\ RankedByFirstOccurrence(hd.domains,
                [i \in DOMAIN hd.stories |->
                   UnwrapOr(hd.stories[i].domain, "")])

\* C19: a cycle that runs process_time_range on the items and the hour of
\* the cycle before it returns the same windows, and authors or domains of
\* equal count are ranked by their first occurrence in the input.
\* (Stated as the claim has it; the program violates it.)
C19_AggregationDeterministic ==
  /\ [](fetched # None => WindowsRankedByFirstOccurrence)
  /\ [][(AggCycleOk /\ fetched # None /\ response # None
          /\ fetched' = fetched /\ current_hour' = current_hour)
         => response' = response]_vars

\* C15: a run of get_all_kafka_messages has consumed at most RetentionCap
\* messages and counted at most three timeouts in a row, whatever the
\* payloads.  (Stated as the claim has it; the program violates it.)
C15_ReplayBounded ==
  consumed <= RetentionCap /\ timeout_count <= MaxTimeouts

====
